---- MODULE Spec2Model ----
(***************************************************************************)
(* StorySync Studio: the App component (project, transport and export     *)
(* state), the Player component (audio source, frame loop, seek effect)   *)
(* and the offline exporter renderAndExportVideo.                         *)
(*                                                                         *)
(* Time is counted in half seconds: 1 unit = 0.5 s.  The 0.5 s slack of   *)
(* source.onended is 1 unit, the 5 s skip-back is 10 units, and the        *)
(* scenario "start times [0, 5, 10] s" is <<0, 10, 20>>.                   *)
(* Array indices are 0-based as in the source; scene k of the source is   *)
(* scenes[k + 1] of the TLA+ sequence.                                     *)
(***************************************************************************)
EXTENDS Integers, Sequences, FiniteSets, TLC

\* ---------------------------------------------------------------- bounds
\* Largest number of scenes (non-empty prompt lines) of a created project.
MaxScenes == 2
\* Longest audio duration of a created project, in half seconds.
MaxDuration == 4
\* Largest number of generateVisuals batches alive at once.
MaxBatches == 2
\* Largest number of queued, undelivered "ended" events of stopped sources.
MaxPendingEnded == 1
\* Largest number of loops left running by unmounted Players.
MaxZombies == 1

\* Significant bits of the numbers of SpecAlignRounding (a double has 53).
MantissaBits == 5
\* Largest number of scenes, and longest audio in seconds, of SpecAlignRounding.
MaxAlignScenes == 5
MaxAlignSeconds == 2

\* ------------------------------------------------------ program constants
\* source.onended: startOffsetRef.current >= audioBuffer.duration - 0.5
EndSlack == 1
\* skip-back: onTimeUpdate(Math.max(0, currentTime - 5))
SkipBack == 10

Min(a, b) == IF a <= b THEN a ELSE b
Max(a, b) == IF a >= b THEN a ELSE b

\* ------------------------------------------------------------------ types
IDLE == "IDLE"
PLAYING == "PLAYING"
PAUSED == "PAUSED"
COMPLETED == "COMPLETED"

\* useState<ProjectData | null>(null): the absent project.
NoProject == [exists |-> FALSE, scenes |-> <<>>, duration |-> 0]

\* The frame the exporter drew last (none before the first frame).
NoFrame ==
    [drawn |-> FALSE, t |-> 0, index |-> 0, script |-> 0, image |-> FALSE,
     progress |-> [kind |-> "finite", num |-> 0, den |-> 1]]

VARIABLES
    project,        \* App: project (ProjectData | null)
    error,          \* App: error message shown in the setup view
    crashed,        \* a state updater threw during render: the tree is gone
    batches,        \* running generateVisuals loops, each awaiting the
                    \* generateSceneImage request of its scene i: [i, n],
                    \* and own: it was started for the current project
    pendingUpdates, \* setProject updaters of generateVisuals that the next
                    \* render has yet to run: [kind, i, ok]
    playbackState,  \* App: playbackState
    currentTime,    \* App: currentTime
    startOffsetRef, \* Player: startOffsetRef.current
    sourceRef,      \* Player: sourceRef.current /= null
    sourcePlaying,  \* the source of sourceRef is still emitting audio
    endedPending,   \* "ended" events of stopped sources not yet delivered
    rafActive,      \* Player: a loop callback is scheduled (rafRef)
    offset,         \* the const offset captured by the running loop
    elapsed,        \* ctx.currentTime - startTimeRef.current
    zombies,        \* frozen positions of loops of unmounted Players
    isExporting,    \* App: isExporting
    exportProgress, \* App: exportProgress, as the fraction num / den
    exportPc,       \* renderAndExportVideo: "idle", "setup", "recording"
    exportProject,  \* the project object handed to renderAndExportVideo
    exportTime,     \* audioCtx.currentTime - startTime of the exporter
    exportFrame,    \* the last frame drawn by drawFrame
    imageAssets,    \* renderAndExportVideo: ids of the scenes whose image
                    \* loaded (the keys of imageAssets)
    completions,    \* history: onPlaybackComplete calls since the last play
    endedNaturally, \* history: the current session's audio reached its end
    sought,         \* history: position of the last seek made while not
                    \* playing, -1 once a play session has started
    requests,       \* history: per scene of the current project, the
                    \* generateSceneImage calls its own loop has made
    lastOp          \* history: the operation that produced this state

vars == <<project, error, crashed, batches, pendingUpdates, playbackState, currentTime,
          startOffsetRef, sourceRef, sourcePlaying, endedPending, rafActive,
          offset, elapsed, zombies, isExporting, exportProgress, exportPc,
          exportProject, exportTime, exportFrame, imageAssets, completions,
          endedNaturally,
          sought, requests, lastOp>>

playerVars == <<startOffsetRef, sourceRef, sourcePlaying, endedPending,
                rafActive, offset, elapsed>>
exportVars == <<isExporting, exportProgress, exportPc, exportProject,
                exportTime, exportFrame, imageAssets>>
historyVars == <<completions, endedNaturally, sought, requests>>

Op(name, arg) == [op |-> name, arg |-> arg]

\* ------------------------------------------------------- scene resolution
\* Player.tsx: scenes.reduce((bestIndex, scene, idx) =>
\*     (scene.startTime <= currentTime) ? idx : bestIndex, 0)
RECURSIVE PlayerReduce(_, _, _, _)
PlayerReduce(scenes, time, idx, bestIndex) ==
    IF idx >= Len(scenes) THEN bestIndex
    ELSE PlayerReduce(scenes, time, idx + 1,
                      IF scenes[idx + 1].startTime <= time THEN idx ELSE bestIndex)

\* A resolver that keeps the first qualifying scene instead of the last.
PlayerFirstQualifying(scenes, time) ==
    IF \E k \in 1..Len(scenes) : scenes[k].startTime <= time
    THEN (CHOOSE k \in 1..Len(scenes) :
             /\ scenes[k].startTime <= time
             /\ \A j \in 1..(k - 1) : scenes[j].startTime > time) - 1
    ELSE 0

\* A resolver whose reduce starts from the last index instead of 0.
PlayerFallbackLast(scenes, time) == PlayerReduce(scenes, time, 0, Len(scenes) - 1)

PlayerActiveSceneIndex(scenes, time) == PlayerReduce(scenes, time, 0, 0)

\* videoRecorder.ts drawFrame: project.scenes.reduce(...) of its own.
RECURSIVE DrawFrameReduce(_, _, _, _)
DrawFrameReduce(scenes, time, idx, bestIndex) ==
    IF idx >= Len(scenes) THEN bestIndex
    ELSE DrawFrameReduce(scenes, time, idx + 1,
                         IF scenes[idx + 1].startTime <= time THEN idx ELSE bestIndex)

\* An exporter that compares strictly: a scene starts one instant late.
DrawFrameStrict(scenes, time) ==
    IF \E k \in 1..Len(scenes) : scenes[k].startTime < time
    THEN (CHOOSE k \in 1..Len(scenes) :
             /\ scenes[k].startTime < time
             /\ \A j \in (k + 1)..Len(scenes) : scenes[j].startTime >= time) - 1
    ELSE 0

DrawFrameActiveSceneIndex(scenes, time) == DrawFrameReduce(scenes, time, 0, 0)

\* Player.tsx: currentScene?.script
PlayerSubtitle(scenes, time) == scenes[PlayerActiveSceneIndex(scenes, time) + 1].script
\* drawFrame: scene.script handed to wrapText
DrawFrameSubtitle(scenes, time) == scenes[DrawFrameActiveSceneIndex(scenes, time) + 1].script

\* Player.tsx: nextScene = activeSceneIndex < scenes.length - 1 ? ... : null
HasNextScene == PlayerActiveSceneIndex(project.scenes, currentTime) < Len(project.scenes) - 1


\* ------------------------------------------------------------------- Init
Init ==
    /\ project = NoProject
    /\ error = "none"
    /\ crashed = FALSE
    /\ batches = <<>>
    /\ pendingUpdates = <<>>
    /\ playbackState = IDLE
    /\ currentTime = 0
    /\ startOffsetRef = 0
    /\ sourceRef = FALSE
    /\ sourcePlaying = FALSE
    /\ endedPending = 0
    /\ rafActive = FALSE
    /\ offset = 0
    /\ elapsed = 0
    /\ zombies = {}
    /\ isExporting = FALSE
    /\ exportProgress = [num |-> 0, den |-> 1]
    /\ exportPc = "idle"
    /\ exportProject = NoProject
    /\ exportTime = 0
    /\ exportFrame = NoFrame
    /\ imageAssets = {}
    /\ completions = 0
    /\ endedNaturally = FALSE
    /\ sought = -1
    /\ requests = <<>>
    /\ lastOp = Op("init", 0)

\* The studio view is mounted and the export overlay does not cover it.
StudioUsable == project.exists /\ ~isExporting

\* ------------------------------------------------- Player: play/pause effect
\* source.stop() queues one more "ended" event when the source still plays.
CanStop == (sourceRef /\ sourcePlaying) => endedPending < MaxPendingEnded

\* Player.tsx, else branch of the play/pause effect, entered with `pending`
\* undelivered "ended" events.  With the loop cancelled nothing reads its
\* offset and anchor any more: they are reset to 0.
PauseBranch(pending) ==
    IF sourceRef
    THEN /\ sourceRef' = FALSE
         /\ sourcePlaying' = FALSE
         /\ endedPending' = pending + (IF sourcePlaying THEN 1 ELSE 0)
         /\ rafActive' = FALSE
         /\ offset' = 0
         /\ elapsed' = 0
    ELSE /\ endedPending' = pending
         /\ UNCHANGED <<sourceRef, sourcePlaying, rafActive, offset, elapsed>>

\* The effect runs only when playbackState changed (its dependency list).
PauseEffect(newState, pending) ==
    IF playbackState /= newState
    THEN PauseBranch(pending)
    ELSE /\ endedPending' = pending
         /\ UNCHANGED <<sourceRef, sourcePlaying, rafActive, offset, elapsed>>

\* Player.tsx: const offset = Math.min(startOffsetRef.current, audioBuffer.duration)
PlayOffset(ref, duration) == Min(ref, duration)

\* Player.tsx, PLAYING branch of the effect, with startOffsetRef.current = ref:
\* a new source and anchor, and the first loop() call, which runs at once.
PlayBranch(ref) ==
    /\ sourceRef' = TRUE
    /\ sourcePlaying' = TRUE
    /\ elapsed' = 0
    /\ offset' = PlayOffset(ref, project'.duration)
    /\ currentTime' = offset'
    /\ startOffsetRef' = offset'
    /\ rafActive' = TRUE
    /\ completions' = 0
    /\ endedNaturally' = FALSE
    /\ sought' = -1

\* App.handlePlayPause and the effect it triggers.
HandlePlayPause ==
    /\ StudioUsable
    /\ UNCHANGED <<project, error, crashed, batches, pendingUpdates, requests, zombies, exportVars>>
    /\ lastOp' = Op("playPause", 0)
    /\ IF playbackState = PLAYING
       THEN /\ CanStop
            /\ playbackState' = PAUSED
            /\ PauseBranch(endedPending)
            /\ UNCHANGED <<currentTime, startOffsetRef, historyVars>>
       ELSE /\ playbackState' = PLAYING
            /\ PlayBranch(startOffsetRef)
            /\ UNCHANGED endedPending

\* The audio clock of the Player's context moves on while something reads it.
AdvanceClock ==
    /\ project.exists
    /\ sourcePlaying \/ rafActive
    /\ offset + elapsed <= project.duration
    /\ elapsed' = elapsed + 1
    /\ lastOp' = Op("clock", 0)
    /\ UNCHANGED <<project, error, crashed, batches, pendingUpdates, playbackState, currentTime,
                   startOffsetRef, sourceRef, sourcePlaying, endedPending,
                   rafActive, offset, zombies, exportVars, historyVars>>

\* Player.tsx loop(): one animation frame of the mounted Player.
FrameTick ==
    /\ project.exists
    /\ rafActive
    /\ LET current == offset + elapsed IN
       IF current > project.duration
       THEN /\ currentTime' = project.duration
            /\ startOffsetRef' = project.duration
            /\ rafActive' = FALSE
       ELSE /\ currentTime' = current
            /\ startOffsetRef' = current
            /\ UNCHANGED rafActive
    /\ lastOp' = Op("tick", 0)
    /\ UNCHANGED <<project, error, crashed, batches, pendingUpdates, playbackState, sourceRef,
                   sourcePlaying, endedPending, offset, elapsed, zombies,
                   exportVars, historyVars>>

\* source.onended runs inside the two actions below.
\* The source played its buffer to the end: its "ended" event is delivered.
EndedNatural ==
    /\ project.exists
    /\ sourceRef /\ sourcePlaying
    /\ offset + elapsed >= project.duration
    /\ endedNaturally' = TRUE
    /\ IF startOffsetRef >= project.duration - EndSlack
       THEN \* onPlaybackComplete, then the pause branch of the effect:
            \* stop() on a source that has ended queues no further event.
            /\ playbackState' = COMPLETED
            /\ completions' = completions + 1
            /\ sourceRef' = FALSE
            /\ sourcePlaying' = FALSE
            /\ rafActive' = FALSE
            /\ offset' = 0
            /\ elapsed' = 0
       ELSE /\ sourcePlaying' = FALSE
            /\ UNCHANGED <<playbackState, completions, sourceRef, rafActive,
                           offset, elapsed>>
    /\ lastOp' = Op("ended", 0)
    /\ UNCHANGED <<project, error, crashed, batches, pendingUpdates, requests, currentTime, startOffsetRef,
                   endedPending, zombies, exportVars, sought>>

\* The "ended" event of a source that was stopped by the pause branch.
EndedStopped ==
    /\ project.exists
    /\ endedPending > 0
    /\ IF startOffsetRef >= project.duration - EndSlack
       THEN /\ playbackState' = COMPLETED
            /\ completions' = completions + 1
            /\ PauseEffect(COMPLETED, endedPending - 1)
       ELSE /\ endedPending' = endedPending - 1
            /\ UNCHANGED <<playbackState, completions, sourceRef, sourcePlaying,
                           rafActive, offset, elapsed>>
    /\ lastOp' = Op("endedStop", 0)
    /\ UNCHANGED <<project, error, crashed, batches, pendingUpdates, requests, currentTime, startOffsetRef,
                   zombies, exportVars, endedNaturally, sought>>

\* --------------------------------------------------------------- seeking
\* onTimeUpdate(t) from a click: setCurrentTime(t), and the seek effect
\* copies the rendered currentTime into startOffsetRef.
SeekTo(t) ==
    /\ currentTime' = t
    /\ startOffsetRef' = t

\* Progress bar onClick: percent * audioBuffer.duration, percent in [0, 1].
ProgressClick(p) ==
    /\ StudioUsable
    /\ SeekTo(p)
    /\ sought' = IF playbackState = PLAYING THEN sought ELSE p
    /\ lastOp' = Op("seek", p)
    /\ UNCHANGED <<project, error, crashed, batches, pendingUpdates, requests, playbackState, sourceRef,
                   sourcePlaying, endedPending, rafActive, offset, elapsed,
                   zombies, exportVars, completions, endedNaturally>>

\* Skip-back button: onTimeUpdate(Math.max(0, currentTime - 5)).
SkipBackClick ==
    /\ StudioUsable
    /\ SeekTo(Max(0, currentTime - SkipBack))
    /\ sought' = IF playbackState = PLAYING THEN sought
                 ELSE Max(0, currentTime - SkipBack)
    /\ lastOp' = Op("seek", Max(0, currentTime - SkipBack))
    /\ UNCHANGED <<project, error, crashed, batches, pendingUpdates, requests, playbackState, sourceRef,
                   sourcePlaying, endedPending, rafActive, offset, elapsed,
                   zombies, exportVars, completions, endedNaturally>>

\* SceneCard onClick: setCurrentTime(scene.startTime); setPlaybackState(PAUSED).
SceneCardClick(k) ==
    /\ StudioUsable
    /\ k \in 1..Len(project.scenes)
    /\ CanStop
    /\ playbackState' = PAUSED
    /\ PauseEffect(PAUSED, endedPending)
    /\ SeekTo(project.scenes[k].startTime)
    /\ sought' = IF playbackState = PLAYING THEN sought
                 ELSE project.scenes[k].startTime
    /\ lastOp' = Op("sceneClick", k - 1)
    /\ UNCHANGED <<project, error, crashed, batches, pendingUpdates, requests, zombies, exportVars,
                   completions, endedNaturally>>

\* ------------------------------------------------ state updates of scenes
\* One setProject(prev => ...) of generateVisuals for scene index i: prev null
\* stays null; the scene objects are shared, so the fields not assigned keep
\* their values.
UpdateScene(prev, i, status, imageUrl) ==
    IF ~prev.exists THEN prev
    ELSE [prev EXCEPT !.scenes[i + 1].status = status,
                      !.scenes[i + 1].imageUrl = imageUrl]

\* updated[i].status = 'generating_image'
MarkGenerating(prev, i) ==
    UpdateScene(prev, i, "generating_image",
                IF prev.exists THEN prev.scenes[i + 1].imageUrl ELSE FALSE)

\* updated[i].imageUrl = imageUrl; updated[i].status = 'ready', or in the
\* catch block updated[i].status = 'error'.
SettleScene(prev, i, ok) ==
    UpdateScene(prev, i, IF ok THEN "ready" ELSE "error",
                IF ok THEN TRUE
                ELSE IF prev.exists THEN prev.scenes[i + 1].imageUrl ELSE FALSE)

\* updated[i] is undefined for an index beyond prev.scenes: the assignment
\* to its status throws inside the updater.
UpdaterThrows(i) == project.exists /\ i >= Len(project.scenes)

RemoveAt(seq, b) == [k \in 1..(Len(seq) - 1) |-> IF k < b THEN seq[k] ELSE seq[k + 1]]

\* One queued updater of generateVisuals, run on prev by the render.
ApplyUpdate(prev, update) ==
    IF update.kind = "mark" THEN MarkGenerating(prev, update.i)
    ELSE SettleScene(prev, update.i, update.ok)

\* The render runs the queued updaters in the order of their setProject calls.
RECURSIVE ApplyUpdates(_, _)
ApplyUpdates(prev, updates) ==
    IF updates = <<>> THEN prev
    ELSE ApplyUpdates(ApplyUpdate(prev, Head(updates)), Tail(updates))

\* A handler calls setProject({ ...project, scenes: newScenes }) with the
\* project of the last render while updaters are queued.  The render runs the
\* updaters first, on the objects of that project, and then stores the
\* handler's object.  The scenes the handler copied ({ ...s }) are new
\* objects: they keep the fields they were copied with.  The others are the
\* very objects the updaters assign to.
StoredScenes(newScenes, copied) ==
    LET updated == ApplyUpdates(project, pendingUpdates).scenes IN
    [k \in 1..Len(newScenes) |->
        IF k \in copied THEN newScenes[k]
        ELSE [updated[k] EXCEPT !.startTime = newScenes[k].startTime]]

\* ---------------------------------------------------------- timeline list
\* App, the isActive prop of the card of scenes[idx]: currentTime >=
\* scene.startTime && (!project.scenes[idx + 1] || currentTime <
\* project.scenes[idx + 1].startTime).
SceneCardIsActive(scenes, time, idx) ==
    /\ time >= scenes[idx + 1].startTime
    /\ \/ idx + 1 >= Len(scenes)
       \/ time < scenes[idx + 2].startTime

\* ------------------------------------------------------- timeline editing
\* SceneCard time input: onTimeChange(parseFloat(e.target.value) || 0).  The
\* field of a number input holds a number, <<t>>, or, when cleared, nothing,
\* <<>>, which parses to NaN.
TimeInput(value) == IF value = <<>> THEN 0 ELSE value[1]

\* An edit that keeps start times from going below 0.
SetStartTimeClamped(scenes, id, newTime) ==
    [k \in 1..Len(scenes) |->
        IF scenes[k].id = id THEN [scenes[k] EXCEPT !.startTime = Max(0, newTime)]
        ELSE scenes[k]]

\* App.handleTimeChange(id, newTime)
\* An edit that moves the edited scene to the end of the list.
SetStartTimeMoveLast(scenes, id, newTime) ==
    LET rest == SelectSeq(scenes, LAMBDA sc : sc.id /= id)
        edited == SelectSeq(scenes, LAMBDA sc : sc.id = id)
    IN rest \o [k \in 1..Len(edited) |-> [edited[k] EXCEPT !.startTime = newTime]]

SetStartTime(scenes, id, newTime) ==
    [k \in 1..Len(scenes) |->
        IF scenes[k].id = id THEN [scenes[k] EXCEPT !.startTime = newTime]
        ELSE scenes[k]]

HandleTimeChange(id, newTime) ==
    /\ StudioUsable
    /\ project' = [project EXCEPT !.scenes =
                       StoredScenes(SetStartTime(project.scenes, id, newTime),
                                    {k \in 1..Len(project.scenes) :
                                         project.scenes[k].id = id})]
    /\ project' /= project
    /\ pendingUpdates' = <<>>
    /\ lastOp' = Op("timeChange", id)
    /\ UNCHANGED <<error, crashed, batches, playbackState, currentTime, playerVars,
                   zombies, exportVars, historyVars>>

\* An auto-align that spaces the scenes from index 1 instead of 0.
AutoAlignFromOne(scenes, duration) ==
    [k \in 1..Len(scenes) |->
        [scenes[k] EXCEPT !.startTime = k * (duration \div Len(scenes))]]

\* App.handleAutoAlign: startTime = idx * (duration / scenes.length)
AutoAlignScenes(scenes, duration) ==
    [k \in 1..Len(scenes) |->
        [scenes[k] EXCEPT !.startTime = (k - 1) * (duration \div Len(scenes))]]

HandleAutoAlign ==
    /\ StudioUsable
    /\ project' = [project EXCEPT !.scenes =
                       StoredScenes(AutoAlignScenes(project.scenes, project.duration),
                                    1..Len(project.scenes))]
    /\ pendingUpdates' = <<>>
    /\ lastOp' = Op("autoAlign", 0)
    /\ UNCHANGED <<error, crashed, batches, playbackState, currentTime, playerVars,
                   zombies, exportVars, historyVars>>

\* ------------------------------------------------------------ record sync
\* project.scenes.findIndex(s => s.startTime > currentTime); -1 when none.
NextSceneIndex(scenes, time) ==
    IF \E k \in 1..Len(scenes) : scenes[k].startTime > time
    THEN (CHOOSE k \in 1..Len(scenes) :
             /\ scenes[k].startTime > time
             /\ \A j \in 1..(k - 1) : ~(scenes[j].startTime > time)) - 1
    ELSE -1

\* A guard that compares the position with the start of the target itself.
PrevSceneTimeOfTarget(scenes, nextSceneIndex) ==
    scenes[nextSceneIndex + 1].startTime

\* prevSceneTime = nextSceneIndex > 0 ? newScenes[nextSceneIndex - 1].startTime : 0
PrevSceneTime(scenes, nextSceneIndex) ==
    IF nextSceneIndex > 0 THEN scenes[nextSceneIndex].startTime ELSE 0

\* A sync that moves the last future scene instead of the first one.
RecordSyncLastFuture(scenes, time) ==
    IF \E k \in 1..Len(scenes) : scenes[k].startTime > time
    THEN LET k == CHOOSE k \in 1..Len(scenes) :
                     /\ scenes[k].startTime > time
                     /\ \A j \in (k + 1)..Len(scenes) : ~(scenes[j].startTime > time)
         IN [scenes EXCEPT ![k].startTime = time]
    ELSE scenes

\* A sync whose guard compares against the scene after the previous one.
RecordSyncGuardOff(scenes, time) ==
    LET nextSceneIndex == NextSceneIndex(scenes, time) IN
    IF nextSceneIndex /= -1 /\ time >= scenes[nextSceneIndex + 1].startTime
    THEN [scenes EXCEPT ![nextSceneIndex + 1].startTime = time]
    ELSE scenes

\* A sync that moves the second future scene when there are two.
RecordSyncSecondFuture(scenes, time) ==
    LET future == {k \in 1..Len(scenes) : scenes[k].startTime > time} IN
    IF future = {} THEN scenes
    ELSE LET first == CHOOSE k \in future : \A j \in future : k <= j
             rest == future \ {first}
             k == IF rest = {} THEN first
                  ELSE CHOOSE r \in rest : \A j \in rest : r <= j
         IN [scenes EXCEPT ![k].startTime = time]

\* App.handleRecordSync: the scene list it stores (unchanged when it declines).
RecordSyncScenes(scenes, time) ==
    LET nextSceneIndex == NextSceneIndex(scenes, time) IN
    IF nextSceneIndex /= -1
       /\ time >= PrevSceneTime(scenes, nextSceneIndex)
    THEN [scenes EXCEPT ![nextSceneIndex + 1].startTime = time]
    ELSE scenes

\* The Sync Next button: disabled unless a next scene exists and we are PLAYING.
HandleRecordSync ==
    /\ StudioUsable
    /\ HasNextScene
    /\ playbackState = PLAYING
    /\ IF RecordSyncScenes(project.scenes, currentTime) = project.scenes
       THEN UNCHANGED <<project, pendingUpdates>>
       ELSE /\ project' = [project EXCEPT !.scenes =
                              StoredScenes(RecordSyncScenes(project.scenes,
                                                            currentTime), {})]
            /\ pendingUpdates' = <<>>
    /\ lastOp' = Op("recordSync", NextSceneIndex(project.scenes, currentTime))
    /\ UNCHANGED <<error, crashed, batches, playbackState, currentTime, playerVars,
                   zombies, exportVars, historyVars>>

\* ------------------------------------------------------- project lifecycle
\* Scene objects whose start times are spaced from index 1 instead of 0.
InitialScenesFromOne(n, duration) ==
    [k \in 1..n |->
        [id |-> k, prompt |-> k, script |-> k, status |-> "pending",
         startTime |-> k * (duration \div n), imageUrl |-> FALSE]]

\* initializeProject step 3: the scene objects of a new project.
InitialScenes(n, duration) ==
    [k \in 1..n |->
        [id |-> k, prompt |-> k, script |-> k, status |-> "pending",
         startTime |-> (k - 1) * (duration \div n), imageUrl |-> FALSE]]

\* initializeProject step 3: newProject.
NewProject(n, duration) ==
    [exists |-> TRUE, scenes |-> InitialScenes(n, duration), duration |-> duration]

\* A creation that keeps the pairs that do exist when the counts differ.
CreationOutcomeLenient(prompts, scripts, hasAudio, hasKey, decodeOk) ==
    IF prompts = 0 \/ scripts = 0 \/ ~hasAudio THEN "fill"
    ELSE IF ~hasKey THEN "key"
    ELSE IF ~decodeOk THEN "decode"
    ELSE "created"

\* initializeProject: which way the handler leaves, for `prompts` non-empty
\* prompt lines and `scripts` non-empty script lines.
CreationOutcome(prompts, scripts, hasAudio, hasKey, decodeOk) ==
    IF prompts = 0 \/ scripts = 0 \/ ~hasAudio THEN "fill"
    ELSE IF ~hasKey THEN "key"
    ELSE IF prompts /= scripts THEN "mismatch"
    ELSE IF ~decodeOk THEN "decode"
    ELSE "created"

\* A new Player mounts: fresh refs, then its effects in declaration order.
MountPlayer ==
    /\ endedPending' = 0
    /\ IF playbackState = PLAYING
       THEN PlayBranch(0)
       ELSE /\ startOffsetRef' = currentTime
            /\ sourceRef' = FALSE
            /\ sourcePlaying' = FALSE
            /\ rafActive' = FALSE
            /\ offset' = 0
            /\ elapsed' = 0
            /\ UNCHANGED <<currentTime, completions, endedNaturally, sought>>

\* initializeProject step 3 and 4: setProject(newProject), then generateVisuals
\* up to its first await; the studio view and its Player mount.
Created(newProject) ==
    /\ Len(batches) < MaxBatches
    /\ error' = "none"
    /\ project' = MarkGenerating(newProject, 0)
    /\ batches' = Append(batches, [i |-> 0, n |-> Len(newProject.scenes),
                                   own |-> TRUE])
    /\ requests' = [k \in 1..Len(newProject.scenes) |-> IF k = 1 THEN 1 ELSE 0]
    /\ pendingUpdates' = <<>>
    /\ MountPlayer
    /\ UNCHANGED <<crashed, playbackState, zombies, exportVars>>

\* App.initializeProject, from the click to the end of its finally block.
\* The audio decodes to `duration`, or fails to decode.  generateVisuals is
\* called without await: it runs up to its first await inside this handler,
\* so the updater that marks scene 0 is queued right behind setProject(newProject)
\* and the request for scene 0 is out when the handler yields.
InitializeProject(prompts, scripts, hasAudio, hasKey, duration, decodeOk) ==
    /\ ~project.exists
    /\ LET outcome == CreationOutcome(prompts, scripts, hasAudio, hasKey, decodeOk) IN
       /\ lastOp' = Op(outcome, prompts - scripts)
       /\ IF outcome = "created"
          THEN /\ duration % Min(prompts, scripts) = 0
               /\ Created(NewProject(Min(prompts, scripts), duration))
          ELSE /\ error' = outcome
               /\ project' = NoProject
               /\ UNCHANGED <<crashed, batches, pendingUpdates, playbackState, currentTime,
                              playerVars, zombies, exportVars, historyVars>>

\* Header onClick: !isExporting && setProject(null).  The Player unmounts; its
\* context closes (the clock stops, the source falls silent), but nothing
\* cancels a scheduled loop callback, which keeps running on the frozen clock.
DiscardProject ==
    /\ StudioUsable
    /\ rafActive => Cardinality(zombies) < MaxZombies
    /\ project' = NoProject
    /\ zombies' = IF rafActive
                  THEN zombies \cup {[pos |-> offset + elapsed,
                                      duration |-> project.duration]}
                  ELSE zombies
    /\ startOffsetRef' = 0
    /\ sourceRef' = FALSE
    /\ sourcePlaying' = FALSE
    /\ endedPending' = 0
    /\ rafActive' = FALSE
    /\ offset' = 0
    /\ elapsed' = 0
    /\ batches' = [b \in 1..Len(batches) |-> [batches[b] EXCEPT !.own = FALSE]]
    /\ pendingUpdates' = <<>>
    /\ requests' = <<>>
    /\ lastOp' = Op("discard", 0)
    /\ UNCHANGED <<error, crashed, playbackState, currentTime, exportVars,
                   completions, endedNaturally, sought>>

\* loop() of an unmounted Player: onTimeUpdate still reaches App.setCurrentTime;
\* a mounted Player's seek effect copies the value into startOffsetRef.
ZombieTick(z) ==
    /\ z \in zombies
    /\ IF z.pos > z.duration
       THEN /\ currentTime' = z.duration
            /\ zombies' = zombies \ {z}
       ELSE /\ currentTime' = z.pos
            /\ UNCHANGED zombies
    /\ startOffsetRef' = IF project.exists THEN currentTime' ELSE startOffsetRef
    /\ lastOp' = Op("zombieTick", 0)
    /\ UNCHANGED <<project, error, crashed, batches, pendingUpdates, playbackState, sourceRef,
                   sourcePlaying, endedPending, rafActive, offset, elapsed,
                   exportVars, historyVars>>

\* ------------------------------------------------------- image generation
\* generateSceneImage returned (ok) or threw, and generateVisuals runs on to
\* its next await: 'ready' with the image, or 'error'; then either the loop
\* ends, or scene i + 1 is marked 'generating_image' and its request goes out.
\* An updater that throws takes the whole tree down in the render that runs it.
GenerateSettle(b, ok) ==
    /\ b \in 1..Len(batches)
    /\ LET i == batches[b].i
           more == i + 1 < batches[b].n
       IN /\ batches' = IF more THEN [batches EXCEPT ![b].i = i + 1]
                         ELSE RemoveAt(batches, b)
          /\ IF UpdaterThrows(i) \/ (more /\ UpdaterThrows(i + 1))
             THEN crashed' = TRUE /\ UNCHANGED project
             ELSE /\ UNCHANGED crashed
                  /\ project' = IF more
                                THEN MarkGenerating(SettleScene(project, i, ok), i + 1)
                                ELSE SettleScene(project, i, ok)
          /\ requests' = IF more /\ batches[b].own
                          THEN [requests EXCEPT ![i + 2] = @ + 1]
                          ELSE requests
          /\ lastOp' = Op(IF ok THEN "genReady" ELSE "genError", i)
    /\ UNCHANGED <<error, pendingUpdates, playbackState, currentTime, playerVars,
                   zombies, exportVars, completions, endedNaturally, sought>>

\* The same resumption of generateVisuals up to its next await, before React
\* renders: its setProject calls are queued.  When nothing else is pending
\* React may run the first updater at the call (eager), and it then assigns
\* to the scene object of the rendered project right away; the updaters
\* after it wait for the render.
GenerateSettleQueued(b, ok, eager) ==
    /\ b \in 1..Len(batches)
    /\ pendingUpdates = <<>>
    /\ project.exists
    /\ ~crashed
    /\ LET i == batches[b].i
           more == i + 1 < batches[b].n
           settle == [kind |-> "settle", i |-> i, ok |-> ok]
           mark == [kind |-> "mark", i |-> i + 1, ok |-> TRUE]
       IN /\ ~UpdaterThrows(i)
          /\ more => ~UpdaterThrows(i + 1)
          /\ batches' = IF more THEN [batches EXCEPT ![b].i = i + 1]
                         ELSE RemoveAt(batches, b)
          /\ project' = IF eager THEN SettleScene(project, i, ok) ELSE project
          /\ pendingUpdates' = (IF eager THEN <<>> ELSE <<settle>>)
                                   \o (IF more THEN <<mark>> ELSE <<>>)
          /\ requests' = IF more /\ batches[b].own
                          THEN [requests EXCEPT ![i + 2] = @ + 1]
                          ELSE requests
          /\ lastOp' = Op(IF ok THEN "genReady" ELSE "genError", i)
    /\ UNCHANGED <<error, crashed, playbackState, currentTime, playerVars, zombies,
                   exportVars, completions, endedNaturally, sought>>

\* React renders App: the queued updaters run, in order.
Render ==
    /\ pendingUpdates /= <<>>
    /\ project' = ApplyUpdates(project, pendingUpdates)
    /\ pendingUpdates' = <<>>
    /\ lastOp' = Op("render", 0)
    /\ UNCHANGED <<error, crashed, batches, playbackState, currentTime, playerVars,
                   zombies, exportVars, historyVars>>

\* ------------------------------------------------------------------ export
\* An export handler that leaves the playback state alone.
HandleExportVideoNoPause ==
    /\ StudioUsable
    /\ isExporting' = TRUE
    /\ exportProgress' = [num |-> 0, den |-> 1]
    /\ exportPc' = "setup"
    /\ exportProject' = project
    /\ exportTime' = 0
    /\ exportFrame' = NoFrame
    /\ imageAssets' = {}
    /\ lastOp' = Op("export", 0)
    /\ UNCHANGED <<project, error, crashed, batches, pendingUpdates, playbackState, currentTime,
                   playerVars, zombies, historyVars>>

\* App.handleExportVideo up to the call of renderAndExportVideo(project, ...).
HandleExportVideo ==
    /\ StudioUsable
    /\ CanStop
    /\ playbackState' = PAUSED
    /\ PauseEffect(PAUSED, endedPending)
    /\ isExporting' = TRUE
    /\ exportProgress' = [num |-> 0, den |-> 1]
    /\ exportPc' = "setup"
    /\ exportProject' = project
    /\ exportTime' = 0
    /\ exportFrame' = NoFrame
    /\ imageAssets' = {}
    /\ lastOp' = Op("export", 0)
    /\ UNCHANGED <<project, error, crashed, batches, pendingUpdates, currentTime, startOffsetRef,
                   zombies, historyVars>>

\* renderAndExportVideo steps 1-4 throw (no 2d context, no recorder for the
\* mime type): reject, the alert, and the finally block of handleExportVideo.
ExportSetupFails ==
    /\ exportPc = "setup"
    /\ isExporting' = FALSE
    /\ exportPc' = "idle"
    /\ exportProject' = NoProject
    /\ lastOp' = Op("exportFailed", 0)
    /\ UNCHANGED <<project, error, crashed, batches, pendingUpdates, playbackState, currentTime,
                   playerVars, zombies, exportProgress, exportTime, exportFrame,
                   imageAssets, historyVars>>

\* The ids of the scenes the preload makes an Image for.
ScenesWithImage(scenes) == {scenes[k].id : k \in {j \in 1..Len(scenes) : scenes[j].imageUrl}}

\* Steps 1-5 succeed: each image of the preload loads (onload) or fails to
\* (onerror), either way its promise resolves; recorder.start(),
\* sourceNode.start(0), startTime taken.
ExportStartsRecording ==
    /\ exportPc = "setup"
    /\ \E loaded \in SUBSET ScenesWithImage(exportProject.scenes) : imageAssets' = loaded
    /\ exportPc' = "recording"
    /\ exportTime' = 0
    /\ lastOp' = Op("exportRecording", 0)
    /\ UNCHANGED <<project, error, crashed, batches, pendingUpdates, playbackState, currentTime,
                   playerVars, zombies, isExporting, exportProgress, exportProject,
                   exportFrame, historyVars>>

\* The exporter's audio clock moves on between two frames.
ExportAdvanceClock ==
    /\ exportPc = "recording"
    /\ exportTime <= exportProject.duration
    /\ exportTime' = exportTime + 1
    /\ lastOp' = Op("exportClock", 0)
    /\ UNCHANGED <<project, error, crashed, batches, pendingUpdates, playbackState, currentTime,
                   playerVars, zombies, isExporting, exportProgress, exportPc,
                   exportProject, exportFrame, imageAssets, historyVars>>

\* A progress report without Math.min around it.
ProgressValueUncapped(time, duration) == [num |-> 100 * time, den |-> duration]

\* onProgress(Math.min(100, (currentTime / duration) * 100)) as num / den.
ProgressValue(time, duration) ==
    [num |-> Min(100 * duration, 100 * time), den |-> duration]

\* A JavaScript number: the fraction num / den with den > 0, or one of the
\* special values Infinity, -Infinity, NaN.
Finite(num, den) == [kind |-> "finite", num |-> num, den |-> den]
Special(kind) == [kind |-> kind, num |-> 0, den |-> 1]

\* a / b of two finite numbers: a zero divisor gives Infinity, -Infinity, or
\* NaN for 0 / 0.
Divide(a, b) ==
    IF b = 0
    THEN IF a > 0 THEN Special("Infinity")
         ELSE IF a < 0 THEN Special("-Infinity")
         ELSE Special("NaN")
    ELSE IF b > 0 THEN Finite(a, b) ELSE Finite(-a, -b)

\* Math.min(1, q): NaN when q is NaN.
MathMinOne(q) ==
    IF q.kind = "NaN" \/ q.kind = "-Infinity" THEN q
    ELSE IF q.kind = "Infinity" THEN Finite(1, 1)
    ELSE IF q.num > q.den THEN Finite(1, 1) ELSE q

\* Math.max(0, q): NaN when q is NaN.
MathMaxZero(q) ==
    IF q.kind = "NaN" \/ q.kind = "Infinity" THEN q
    ELSE IF q.kind = "-Infinity" THEN Finite(0, 1)
    ELSE IF q.num < 0 THEN Finite(0, 1) ELSE q

\* An end boundary read one index too early: the active scene's own start.
NextStartTimeOffByOne(scenes, duration, activeSceneIndex) ==
    IF activeSceneIndex < Len(scenes) - 1
    THEN scenes[activeSceneIndex + 1].startTime
    ELSE duration

\* drawFrame: the start of the scene after the active one, or the duration.
NextStartTime(scenes, duration, activeSceneIndex) ==
    IF activeSceneIndex < Len(scenes) - 1
    THEN scenes[activeSceneIndex + 2].startTime
    ELSE duration

\* drawFrame: sceneDuration = nextStartTime - scene.startTime
SceneDuration(scenes, duration, time) ==
    LET activeSceneIndex == DrawFrameActiveSceneIndex(scenes, time) IN
    NextStartTime(scenes, duration, activeSceneIndex)
        - scenes[activeSceneIndex + 1].startTime

\* The quotient of drawFrame without Math.max and Math.min around it.
SceneProgressUnclamped(scenes, duration, time) ==
    LET activeSceneIndex == DrawFrameActiveSceneIndex(scenes, time) IN
    Divide(time - scenes[activeSceneIndex + 1].startTime,
           SceneDuration(scenes, duration, time))

\* drawFrame: sceneProgress =
\*   Math.max(0, Math.min(1, (currentTime - scene.startTime) / sceneDuration))
SceneProgress(scenes, duration, time) ==
    LET activeSceneIndex == DrawFrameActiveSceneIndex(scenes, time) IN
    MathMaxZero(MathMinOne(
        Divide(time - scenes[activeSceneIndex + 1].startTime,
               SceneDuration(scenes, duration, time))))

\* An end test that lets the frame at the duration itself be drawn.
ExportEndedStrict(time, duration) == time > duration

\* drawFrame: if (currentTime >= duration)
ExportEnded(time, duration) == time >= duration

\* drawFrame: report progress; at the end stop the recorder, whose onstop
\* resolves the promise (isExporting false); otherwise draw the active scene.
ExportDrawFrame ==
    /\ exportPc = "recording"
    /\ exportProgress' = ProgressValue(exportTime, exportProject.duration)
    /\ IF ExportEnded(exportTime, exportProject.duration)
       THEN /\ isExporting' = FALSE
            /\ exportPc' = "idle"
            /\ exportProject' = NoProject
            /\ imageAssets' = {}
            /\ UNCHANGED exportFrame
       ELSE /\ exportFrame' =
                  [drawn |-> TRUE, t |-> exportTime,
                   image |-> exportProject.scenes[
                                 DrawFrameActiveSceneIndex(exportProject.scenes,
                                                           exportTime) + 1].id
                             \in imageAssets,
                   index |-> DrawFrameActiveSceneIndex(exportProject.scenes, exportTime),
                   script |-> DrawFrameSubtitle(exportProject.scenes, exportTime),
                   progress |-> SceneProgress(exportProject.scenes,
                                              exportProject.duration, exportTime)]
            /\ UNCHANGED <<isExporting, exportPc, exportProject, imageAssets>>
    /\ lastOp' = Op("exportFrame", 0)
    /\ UNCHANGED <<project, error, crashed, batches, pendingUpdates, playbackState, currentTime,
                   playerVars, zombies, exportTime, historyVars>>

\* drawFrame throws after recording has started.  It runs as an animation
\* frame callback, outside the try block of renderAndExportVideo: nothing
\* catches the error, no further frame is requested, and the promise is
\* neither resolved nor rejected, so handleExportVideo stays at its await.
ExportFrameFault ==
    /\ exportPc = "recording"
    /\ exportPc' = "stalled"
    /\ lastOp' = Op("exportFault", 0)
    /\ UNCHANGED <<project, error, crashed, batches, pendingUpdates, playbackState, currentTime,
                   playerVars, zombies, isExporting, exportProgress, exportProject,
                   exportTime, exportFrame, imageAssets, historyVars>>

\* ------------------------------------------------------------------- Next
\* The inputs of a creation that passes every check of initializeProject.
CreateProject(n, duration) == InitializeProject(n, n, TRUE, TRUE, duration, TRUE)

\* The audio is decoded after the checks of the inputs: only a creation that
\* got through them and decoded its audio has a duration.
DecodedDurations(prompts, scripts, hasAudio, hasKey, decodeOk) ==
    IF CreationOutcome(prompts, scripts, hasAudio, hasKey, decodeOk) = "created"
    THEN 1..MaxDuration
    ELSE {0}

\* The whole application.  Its state space is the product of the parts below
\* and is not enumerated; each property is checked under the part that
\* contains every operation reading or writing the state it speaks about.
Next ==
    /\ ~crashed
    /\ \/ \E prompts \in 0..MaxScenes, scripts \in 0..MaxScenes,
            hasAudio \in BOOLEAN, hasKey \in BOOLEAN, decodeOk \in BOOLEAN :
              \E duration \in DecodedDurations(prompts, scripts, hasAudio, hasKey, decodeOk) :
                InitializeProject(prompts, scripts, hasAudio, hasKey, duration, decodeOk)
       \/ DiscardProject
       \/ \E b \in 1..MaxBatches, ok \in BOOLEAN : GenerateSettle(b, ok)
       \/ HandlePlayPause
       \/ AdvanceClock
       \/ FrameTick
       \/ EndedNatural
       \/ EndedStopped
       \/ \E z \in zombies : ZombieTick(z)
       \/ \E p \in 0..MaxDuration : p <= project.duration /\ ProgressClick(p)
       \/ SkipBackClick
       \/ \E k \in 1..MaxScenes : SceneCardClick(k)
       \/ \E id \in 1..MaxScenes, t \in 0..(MaxDuration + 1) :
              t <= project.duration + 1 /\ HandleTimeChange(id, t)
       \/ HandleAutoAlign
       \/ HandleRecordSync
       \/ HandleExportVideo
       \/ ExportSetupFails
       \/ ExportStartsRecording
       \/ ExportAdvanceClock
       \/ ExportDrawFrame
       \/ ExportFrameFault

Spec == Init /\ [][Next]_vars

\* Project creation and image generation: initializeProject with every input,
\* the creation of three scenes over 30 s of audio, the header click, and the
\* generateVisuals batches.
NextCreate ==
    /\ ~crashed
    /\ \/ \E prompts \in 0..MaxScenes, scripts \in 0..MaxScenes,
            hasAudio \in BOOLEAN, hasKey \in BOOLEAN, decodeOk \in BOOLEAN :
              \E duration \in DecodedDurations(prompts, scripts, hasAudio, hasKey, decodeOk) :
                InitializeProject(prompts, scripts, hasAudio, hasKey, duration, decodeOk)
       \/ CreateProject(3, 60)
       \/ DiscardProject
       \/ \E b \in 1..MaxBatches, ok \in BOOLEAN : GenerateSettle(b, ok)

SpecCreate == Init /\ [][NextCreate]_vars

\* The timeline under the Player: start-time edits, auto-align, seeks, the
\* frame loop, and Sync Next.
NextTimeline ==
    \/ \E n \in 1..MaxScenes, duration \in 1..MaxDuration : CreateProject(n, duration)
    \/ \E id \in 1..MaxScenes, t \in 0..(MaxDuration + 1) :
           t <= project.duration + 1 /\ HandleTimeChange(id, t)
    \/ HandleAutoAlign
    \/ \E p \in 0..MaxDuration : p <= project.duration /\ ProgressClick(p)
    \/ HandlePlayPause
    \/ AdvanceClock
    \/ FrameTick
    \/ HandleRecordSync

SpecTimeline == Init /\ [][NextTimeline]_vars

\* The timeline under the exporter: start-time edits, auto-align, the Player's
\* position, and renderAndExportVideo from the click to its last frame.
NextExport ==
    \/ \E n \in 1..MaxScenes, duration \in 1..MaxDuration : CreateProject(n, duration)
    \/ \E id \in 1..MaxScenes, t \in 0..(MaxDuration + 1) :
           t <= project.duration + 1 /\ HandleTimeChange(id, t)
    \/ HandleAutoAlign
    \/ \E p \in 0..MaxDuration : p <= project.duration /\ ProgressClick(p)
    \/ HandleExportVideo
    \/ ExportSetupFails
    \/ ExportStartsRecording
    \/ ExportAdvanceClock
    \/ ExportDrawFrame

SpecExport == Init /\ [][NextExport]_vars

\* The exporter over every timeline the time inputs can produce, start times
\* below 0 and beyond the duration included.
NextExportProgress ==
    \/ \E n \in 1..MaxScenes, duration \in 1..MaxDuration : CreateProject(n, duration)
    \/ \E id \in 1..MaxScenes, t \in (-1)..(MaxDuration + 1) :
           t <= project.duration + 1 /\ HandleTimeChange(id, t)
    \/ HandleExportVideo
    \/ ExportStartsRecording
    \/ ExportAdvanceClock
    \/ ExportDrawFrame

SpecExportProgress == Init /\ [][NextExportProgress]_vars

\* Exports of projects whose images are being generated, with the exporter's
\* audio clock advancing and requestAnimationFrame calling drawFrame again.
NextExportRun ==
    \/ \E n \in 1..MaxScenes, duration \in 1..MaxDuration : CreateProject(n, duration)
    \/ \E b \in 1..MaxBatches, ok \in BOOLEAN : GenerateSettle(b, ok)
    \/ HandleExportVideo
    \/ ExportSetupFails
    \/ ExportStartsRecording
    \/ ExportAdvanceClock
    \/ ExportDrawFrame

SpecExportRun == Init /\ [][NextExportRun]_vars

\* Exports in which a frame can fail.
NextExportFaults ==
    \/ \E n \in 1..MaxScenes, duration \in 1..MaxDuration : CreateProject(n, duration)
    \/ \E b \in 1..MaxBatches, ok \in BOOLEAN : GenerateSettle(b, ok)
    \/ HandleExportVideo
    \/ ExportSetupFails
    \/ ExportStartsRecording
    \/ ExportAdvanceClock
    \/ ExportDrawFrame
    \/ ExportFrameFault

SpecExportFaults == Init /\ [][NextExportFaults]_vars

SpecExportRunFair ==
    SpecExportRun /\ WF_vars(ExportAdvanceClock) /\ WF_vars(ExportDrawFrame)

\* The transport: play, pause, the frame loop, the audio source's events,
\* seeks, the project's discard and re-creation, and the pause of an export.
NextTransport ==
    \/ \E n \in 1..MaxScenes : CreateProject(n, MaxDuration)
    \/ DiscardProject
    \/ HandlePlayPause
    \/ AdvanceClock
    \/ FrameTick
    \/ EndedNatural
    \/ EndedStopped
    \/ \E z \in zombies : ZombieTick(z)
    \/ \E p \in 0..MaxDuration : p <= project.duration /\ ProgressClick(p)
    \/ SkipBackClick
    \/ \E k \in 1..MaxScenes : SceneCardClick(k)
    \/ HandleExportVideo
    \/ ExportSetupFails

SpecTransport == Init /\ [][NextTransport]_vars

\* Every operation that writes playbackState or isExporting: play and pause,
\* the frame loop and the audio source's events, the discard of a project
\* with the loop it leaves behind, and whole exports: start, frames, end,
\* failure.
NextTransportExport ==
    \/ CreateProject(1, MaxDuration)
    \/ DiscardProject
    \/ HandlePlayPause
    \/ AdvanceClock
    \/ FrameTick
    \/ EndedNatural
    \/ EndedStopped
    \/ \E z \in zombies : ZombieTick(z)
    \/ HandleExportVideo
    \/ ExportSetupFails
    \/ ExportStartsRecording
    \/ ExportAdvanceClock
    \/ ExportDrawFrame
    \/ ExportFrameFault

SpecTransportExport == Init /\ [][NextTransportExport]_vars

\* What the time input of a scene card can hold: a time from before 0 to
\* after the end, or nothing.
EditValues == {<<t>> : t \in (-1)..(MaxDuration + 1)} \cup {<<>>}

\* Editing while images arrive: start-time edits (also to a negative time and
\* to one after the end), auto-align, the press of play, Sync Next at a
\* position sought while playing, and the generateVisuals batch of the project.
NextEdit ==
    \/ \E n \in 1..MaxScenes, duration \in 1..MaxDuration : CreateProject(n, duration)
    \/ \E id \in 1..MaxScenes, value \in EditValues :
           /\ TimeInput(value) <= project.duration + 1
           /\ HandleTimeChange(id, TimeInput(value))
    \/ HandleAutoAlign
    \/ \E p \in 0..MaxDuration :
           p <= project.duration /\ playbackState = PLAYING /\ ProgressClick(p)
    \/ playbackState /= PLAYING /\ HandlePlayPause
    \/ HandleRecordSync
    \/ \E b \in 1..MaxBatches, ok \in BOOLEAN : GenerateSettle(b, ok)

SpecEdit == Init /\ [][NextEdit]_vars

\* Timeline edits between a resumption of generateVisuals and the render
\* that runs its updaters.
NextRace ==
    \/ \E n \in 1..MaxScenes, duration \in 1..MaxDuration : CreateProject(n, duration)
    \/ \E b \in 1..MaxBatches, ok \in BOOLEAN, eager \in BOOLEAN :
           GenerateSettleQueued(b, ok, eager)
    \/ Render
    \/ \E id \in 1..MaxScenes, t \in {0, 1} : HandleTimeChange(id, t)
    \/ HandleAutoAlign
    \/ playbackState /= PLAYING /\ HandlePlayPause
    \/ HandleRecordSync

SpecRace == Init /\ [][NextRace]_vars

\* One project under every operation that hands setProject a project
\* (start-time edits, auto-align, Sync Next, the generateVisuals batch) and
\* under the seeks, play and export, which read it.
NextShape ==
    \/ \E n \in 1..MaxScenes, duration \in 1..MaxDuration : CreateProject(n, duration)
    \/ \E id \in 1..MaxScenes, t \in {-1, 0, MaxDuration} : HandleTimeChange(id, t)
    \/ HandleAutoAlign
    \/ \E p \in {0, 1} : playbackState = PLAYING /\ ProgressClick(p)
    \/ \E k \in 1..MaxScenes : playbackState = PLAYING /\ SceneCardClick(k)
    \/ playbackState /= PLAYING /\ HandlePlayPause
    \/ HandleRecordSync
    \/ \E b \in 1..MaxBatches, ok \in BOOLEAN : GenerateSettle(b, ok)
    \/ HandleExportVideo
    \/ ExportStartsRecording
    \/ ExportDrawFrame

SpecShape == Init /\ [][NextShape]_vars

\* ------------------------------------------------ floating-point timeline
\* In SpecAlignRounding a time is a floating-point number with MantissaBits
\* significant bits, rounded to nearest, ties to even, as every arithmetic
\* operation of the source rounds its double.  A number is held as its count
\* of ticks, TicksPerSecond to the second; the tick is fine enough for every
\* number of the specification to be a whole count.
Pow2(e) == IF e = 0 THEN 1 ELSE 2 ^ e

TicksPerSecond == Pow2(MantissaBits + 3)

\* The unit in the last place of num / den: the least power of two u with
\* num / den < 2^MantissaBits * u.
RECURSIVE Ulp(_, _, _)
Ulp(num, den, u) ==
    IF num < Pow2(MantissaBits) * u * den THEN u ELSE Ulp(num, den, 2 * u)

\* The floating-point number nearest to num / den (num >= 0, den > 0).
RoundNearestEven(num, den) ==
    IF num = 0 THEN 0
    ELSE LET u == Ulp(num, den, 1)
             q == num \div (u * den)
             r == num % (u * den)
         IN (IF 2 * r > u * den \/ (2 * r = u * den /\ q % 2 = 1)
             THEN q + 1 ELSE q) * u

\* a / n and k * a of the source.
FloatDiv(a, n) == RoundNearestEven(a, n)
FloatMul(k, a) == RoundNearestEven(k * a, 1)

\* initialScenes with const interval = audioBuffer.duration / prompts.length
\* and startTime: idx * interval.
InitialScenesRounded(n, duration) ==
    [k \in 1..n |->
        [id |-> k, prompt |-> k, script |-> k, status |-> "pending",
         startTime |-> FloatMul(k - 1, FloatDiv(duration, n)), imageUrl |-> FALSE]]

\* initializeProject with inputs that pass its checks and audio of `seconds`.
CreateProjectRounded(n, seconds) ==
    /\ ~project.exists
    /\ lastOp' = Op("created", 0)
    /\ Created([exists |-> TRUE,
                scenes |-> InitialScenesRounded(n, seconds * TicksPerSecond),
                duration |-> seconds * TicksPerSecond])

\* An auto-align that stores the scenes as they are.
AutoAlignKeepsTimes(scenes, duration) == scenes

\* handleAutoAlign: const interval = project.duration / project.scenes.length
\* and startTime: idx * interval.
AutoAlignScenesRounded(scenes, duration) ==
    [k \in 1..Len(scenes) |->
        [scenes[k] EXCEPT
            !.startTime = FloatMul(k - 1, FloatDiv(duration, Len(scenes)))]]

HandleAutoAlignRounded ==
    /\ StudioUsable
    /\ project' = [project EXCEPT !.scenes =
                       StoredScenes(AutoAlignScenesRounded(project.scenes,
                                                           project.duration),
                                    1..Len(project.scenes))]
    /\ pendingUpdates' = <<>>
    /\ lastOp' = Op("autoAlign", 0)
    /\ UNCHANGED <<error, crashed, batches, playbackState, currentTime, playerVars,
                   zombies, exportVars, historyVars>>

\* The time k * duration / n, as the expression evaluates: (k * duration) / n.
NominalTime(k, duration, n) == FloatDiv(FloatMul(k, duration), n)

\* Auto-align in floating point: creation, manual edits to 0 or the duration,
\* auto-align, a click of the progress bar at k * duration / n, and a click
\* of a scene card, which seeks to the scene's stored start time.
NextAlignRounding ==
    \/ \E n \in 1..MaxAlignScenes, seconds \in 1..MaxAlignSeconds :
           CreateProjectRounded(n, seconds)
    \/ \E id \in 1..MaxAlignScenes, t \in {0, project.duration} :
           HandleTimeChange(id, t)
    \/ HandleAutoAlignRounded
    \/ \E k \in 0..(MaxAlignScenes - 1) :
           /\ project.exists
           /\ k < Len(project.scenes)
           /\ ProgressClick(NominalTime(k, project.duration, Len(project.scenes)))
    \/ \E k \in 1..MaxAlignScenes : SceneCardClick(k)

SpecAlignRounding == Init /\ [][NextAlignRounding]_vars

\* The sync scenario: three scenes over 15 s of audio, which creation spaces
\* at 0, 5 and 10 s; seeks to a few positions, play/pause, and Sync Next.
NextSyncScenario ==
    \/ CreateProject(3, 30)
    \/ \E p \in {0, 6, 14, 20, 30} : ProgressClick(p)
    \/ HandlePlayPause
    \/ FrameTick
    \/ HandleRecordSync

SpecSyncScenario == Init /\ [][NextSyncScenario]_vars

\* Playback of one project: play and pause, the audio clock, the frame loop,
\* the "ended" events of sources that ran out or were stopped, scene-card
\* clicks, and exports (which pause) that end in their setup.
NextPlayback ==
    \/ \E n \in 1..MaxScenes : CreateProject(n, MaxDuration)
    \/ HandlePlayPause
    \/ AdvanceClock
    \/ FrameTick
    \/ EndedNatural
    \/ EndedStopped
    \/ \E k \in 1..MaxScenes : SceneCardClick(k)
    \/ HandleExportVideo
    \/ ExportSetupFails

SpecPlayback == Init /\ [][NextPlayback]_vars

\* ================================================================ properties
StartTimes(scenes) == [k \in 1..Len(scenes) |-> scenes[k].startTime]

\* Every time the model can put on the timeline.
Times == 0..(MaxDuration + 1)

\* The greatest 0-based index whose scene has started by `time`, 0 when none.
GreatestStarted(scenes, time) ==
    LET started == {k \in 1..Len(scenes) : scenes[k].startTime <= time} IN
    IF started = {} THEN 0
    ELSE (CHOOSE k \in started : \A j \in started : j <= k) - 1

\* C1: for every non-empty scene list, in any order of start times, and every
\* time t, the active scene of the Player and of the exporter is the greatest
\* index i with scenes[i].startTime <= t, and 0 when no scene has started.
C1_ActiveSceneIsLastStarted ==
    project.exists =>
        \A t \in Times :
            /\ PlayerActiveSceneIndex(project.scenes, t)
                   = GreatestStarted(project.scenes, t)
            /\ DrawFrameActiveSceneIndex(project.scenes, t)
                   = GreatestStarted(project.scenes, t)

\* The Player shows scene 1 of a list whose start times run backwards.
C1_Witness ==
    /\ project.exists
    /\ Len(project.scenes) = 2
    /\ project.scenes[1].startTime > project.scenes[2].startTime
    /\ project.scenes[2].startTime <= currentTime
    /\ currentTime < project.scenes[1].startTime
    /\ lastOp.op = "seek"
    /\ PlayerActiveSceneIndex(project.scenes, currentTime) = 1

\* C2: on the same scene list and the same time t in [0, duration) the Player
\* and the exporter select the same scene index and the same subtitle; so
\* does every frame the exporter has drawn.
C2_PreviewExportParity ==
    /\ project.exists =>
          \A t \in 0..(project.duration - 1) :
              /\ PlayerActiveSceneIndex(project.scenes, t)
                     = DrawFrameActiveSceneIndex(project.scenes, t)
              /\ PlayerSubtitle(project.scenes, t)
                     = DrawFrameSubtitle(project.scenes, t)
    /\ (exportPc = "recording" /\ exportFrame.drawn) =>
          /\ exportFrame.index
                 = PlayerActiveSceneIndex(exportProject.scenes, exportFrame.t)
          /\ exportFrame.script = PlayerSubtitle(exportProject.scenes, exportFrame.t)

\* The exporter drew the frame of the Player's position, at the start time of
\* scene 1, with scene 0 starting later than scene 1.
C2_Witness ==
    /\ exportPc = "recording"
    /\ exportFrame.drawn
    /\ Len(exportProject.scenes) = 2
    /\ exportProject.scenes[1].startTime > exportProject.scenes[2].startTime
    /\ exportFrame.t = exportProject.scenes[2].startTime
    /\ exportFrame.t = currentTime
    /\ exportFrame.index = 1

\* C3: while PLAYING no frame of the loop lowers currentTime, and while not
\* PLAYING no frame of any loop changes it.
C3_TicksMonotoneFrozenWhenPaused ==
    [][/\ (playbackState = PLAYING /\ playbackState' = PLAYING
              /\ lastOp'.op = "tick")
          => currentTime' >= currentTime
       /\ (playbackState /= PLAYING /\ lastOp'.op \in {"tick", "zombieTick"})
          => currentTime' = currentTime]_vars

\* C4: once a play session's audio has run to its end and the session's ended
\* event and last frame are through, currentTime is the duration, the
\* transport has left PLAYING, and onPlaybackComplete was called exactly once.
C4_CompletesExactlyOnce ==
    (/\ project.exists
     /\ endedNaturally
     /\ ~rafActive
     /\ lastOp.op \in {"tick", "ended"})
    => /\ currentTime = project.duration
       /\ playbackState /= PLAYING
       /\ completions = 1

\* C5: after a seek to p made while PLAYING with the session running, the frame
\* that follows at once (no clock time has passed) reports p, and the audio
\* plays at p.
C5_SeekWhilePlayingReanchors ==
    [][(/\ playbackState = PLAYING
        /\ lastOp.op = "seek"
        /\ rafActive
        /\ sourcePlaying
        /\ lastOp'.op = "tick")
       => /\ currentTime' = currentTime
          /\ offset' + elapsed' = currentTime]_vars

\* C6: the play that follows a seek to p made while not playing starts the
\* audio and the timeline at p, clamped to the duration.
C6_PlayResumesFromSought ==
    [][(/\ playbackState /= PLAYING
        /\ sought >= 0
        /\ lastOp'.op = "playPause")
       => /\ offset' = Min(sought, project.duration)
          /\ currentTime' = Min(sought, project.duration)]_vars

\* The first scene in array order that starts after `time` (1-based), 0 if none.
FirstFuture(scenes, time) ==
    LET future == {k \in 1..Len(scenes) : scenes[k].startTime > time} IN
    IF future = {} THEN 0
    ELSE CHOOSE k \in future : \A j \in future : k <= j

\* The sync is not declined: the position is not before the start of the
\* scene in front of the target (0 for the first scene).
SyncPasses(scenes, time, k) ==
    time >= (IF k > 1 THEN scenes[k - 1].startTime ELSE 0)

\* C7: a recordSync at position t that is not declined sets the startTime of
\* the first scene (array order) with startTime > t to t and changes nothing
\* else of the project; with no such scene the project is unchanged, for the
\* position of the click and for every position the handler could be given.
C7_SyncMovesFirstFutureScene ==
    [][HandleRecordSync =>
         LET k == FirstFuture(project.scenes, currentTime) IN
         /\ project'.exists /\ project'.duration = project.duration
         /\ Len(project'.scenes) = Len(project.scenes)
         /\ k = 0 => project'.scenes = project.scenes
         /\ \A t \in Times :
               FirstFuture(project.scenes, t) = 0
                   => RecordSyncScenes(project.scenes, t) = project.scenes
         /\ (k > 0 /\ SyncPasses(project.scenes, currentTime, k)) =>
               \A j \in 1..Len(project.scenes) :
                   project'.scenes[j] =
                       IF j = k
                       THEN [project.scenes[j] EXCEPT !.startTime = currentTime]
                       ELSE project.scenes[j]]_vars

\* A sync at a position after 0 has just moved scene 0, the first of two
\* scenes that lay in the future; scene 1 stayed where it was.
C7_Witness ==
    /\ lastOp.op = "recordSync"
    /\ lastOp.arg = 0
    /\ Len(project.scenes) = 2
    /\ project.scenes[1].startTime = currentTime
    /\ project.scenes[2].startTime > currentTime
    /\ currentTime > 0

\* C9 as stated: from start times [0, 5, 10] s a sync at 7 s gives [0, 5, 7],
\* and a sync at 3 s after it is declined and leaves [0, 5, 7].
C9_SecondSyncDeclined ==
    [][HandleRecordSync =>
         /\ (StartTimes(project.scenes) = <<0, 10, 20>> /\ currentTime = 14)
            => StartTimes(project'.scenes) = <<0, 10, 14>>
         /\ (StartTimes(project.scenes) = <<0, 10, 14>> /\ currentTime = 6)
            => StartTimes(project'.scenes) = <<0, 10, 14>>]_vars

\* C9 amended: from start times [0, 5, 10] s a sync at 7 s gives [0, 5, 7],
\* and a sync at 3 s after it is accepted: it moves scene 1, giving [0, 3, 7].
C9_SecondSyncAccepted ==
    [][HandleRecordSync =>
         /\ (StartTimes(project.scenes) = <<0, 10, 20>> /\ currentTime = 14)
            => StartTimes(project'.scenes) = <<0, 10, 14>>
         /\ (StartTimes(project.scenes) = <<0, 10, 14>> /\ currentTime = 6)
            => StartTimes(project'.scenes) = <<0, 6, 14>>]_vars

\* Both syncs of the scenario have run.
C9_Witness ==
    /\ lastOp.op = "recordSync"
    /\ lastOp.arg = 1
    /\ currentTime = 6
    /\ project.exists
    /\ StartTimes(project.scenes) = <<0, 6, 14>>

\* The ways initializeProject can leave; lastOp.arg of such a step is the
\* number of non-empty prompt lines minus the number of script lines.
CreationOutcomes == {"fill", "key", "mismatch", "decode", "created"}

\* C10: a creation whose counts of non-empty prompt and script lines differ
\* ends with an error set, with no project, and with no generateVisuals batch
\* started.
C10_MismatchCreatesNothing ==
    [][(lastOp'.op \in CreationOutcomes /\ lastOp'.arg /= 0)
       => /\ error' /= "none"
          /\ lastOp'.op /= "created"
          /\ project' = NoProject
          /\ batches' = batches]_vars

\* A creation has just failed on the mismatch of counts, with batches of an
\* earlier project still listed and nothing added to them.
C10_Witness ==
    /\ lastOp.op = "mismatch"
    /\ lastOp.arg /= 0
    /\ error = "mismatch"
    /\ ~project.exists
    /\ Len(batches) = 1

\* The inputs of the successful creations of SpecCreate: n pairs, duration D.
CreationInputs == ((1..MaxScenes) \X (1..MaxDuration)) \cup {<<3, 60>>}

\* What a creation with n pairs and duration D leaves: n scenes in input
\* order, scene k (0-based) with startTime k * (D / n), no image, ids 1..n,
\* the first scene with status `first` and the others pending.
CreatedAs(n, D, first) ==
    /\ project'.exists
    /\ project'.duration = D
    /\ Len(project'.scenes) = n
    /\ \A k \in 1..n :
          /\ project'.scenes[k].prompt = k
          /\ project'.scenes[k].script = k
          /\ project'.scenes[k].startTime * n = (k - 1) * D
          /\ project'.scenes[k].imageUrl = FALSE
          /\ project'.scenes[k].status = IF k = 1 THEN first ELSE "pending"
          /\ \A j \in 1..n : j /= k => project'.scenes[j].id /= project'.scenes[k].id

\* C11 as stated: a successful creation with n pairs and duration D leaves n
\* scenes in input order, scene k at k * (D / n), every one pending, without
\* image and with an id of its own; 3 pairs over 30 s start at [0, 10, 20] s.
C11_CreatedAllPending ==
    [][/\ \A in \in CreationInputs :
             CreateProject(in[1], in[2]) => CreatedAs(in[1], in[2], "pending")
       /\ CreateProject(3, 60) => StartTimes(project'.scenes) = <<0, 20, 40>>]_vars

\* C11 amended: as above, but the first scene is already 'generating_image'
\* when the creation yields (the creation starts generateVisuals, which marks
\* scene 0 and sends its request before its first await); the others are
\* pending.
C11_CreatedFirstGenerating ==
    [][/\ \A in \in CreationInputs :
             CreateProject(in[1], in[2]) => CreatedAs(in[1], in[2], "generating_image")
       /\ CreateProject(3, 60) => StartTimes(project'.scenes) = <<0, 20, 40>>]_vars

\* Three pairs over 30 s of audio have just been created.
C11_Witness ==
    /\ lastOp.op = "created"
    /\ project.exists
    /\ project.duration = 60
    /\ StartTimes(project.scenes) = <<0, 20, 40>>
    /\ project.scenes[1].status = "generating_image"
    /\ project.scenes[3].status = "pending"

\* C12: whatever edits and syncs came before, autoAlign sets the startTime of
\* every scene k (0-based) to k * (duration / n) and changes nothing else of
\* the project: ids, order, prompts, scripts, images, statuses, duration.
C12_AutoAlignResets ==
    [][HandleAutoAlign =>
         /\ project'.exists
         /\ project'.duration = project.duration
         /\ Len(project'.scenes) = Len(project.scenes)
         /\ \A k \in 1..Len(project.scenes) :
               /\ project'.scenes[k].startTime * Len(project.scenes)
                      = (k - 1) * project.duration
               /\ project'.scenes[k] =
                      [project.scenes[k] EXCEPT
                          !.startTime = project'.scenes[k].startTime]]_vars

\* An auto-align has just put two scenes, one with its image and one whose
\* generation failed, at 0 and at half the duration.
C12_Witness ==
    /\ lastOp.op = "autoAlign"
    /\ project.exists
    /\ Len(project.scenes) = 2
    /\ project.scenes[1].status = "ready"
    /\ project.scenes[1].imageUrl
    /\ project.scenes[2].status = "error"
    /\ project.scenes[1].startTime = 0
    /\ project.scenes[2].startTime * 2 = project.duration

\* C13 as stated: right after autoAlign on n scenes over duration D, the
\* active scene at the time k * D / n is scene k, for every k in [0, n).
C13_ActiveAtNominalTime ==
    (project.exists /\ lastOp.op = "autoAlign") =>
        \A k \in 0..(Len(project.scenes) - 1) :
            LET t == NominalTime(k, project.duration, Len(project.scenes)) IN
            /\ PlayerActiveSceneIndex(project.scenes, t) = k
            /\ DrawFrameActiveSceneIndex(project.scenes, t) = k

\* C13 amended: right after autoAlign on n scenes over duration D > 0, the
\* active scene at the time k * (D / n), evaluated as autoAlign evaluates the
\* start time it stores (k times the interval D / n), is scene k.
C13_ActiveAtStoredTime ==
    (project.exists /\ lastOp.op = "autoAlign") =>
        \A k \in 0..(Len(project.scenes) - 1) :
            LET t == FloatMul(k, FloatDiv(project.duration, Len(project.scenes))) IN
            /\ PlayerActiveSceneIndex(project.scenes, t) = k
            /\ DrawFrameActiveSceneIndex(project.scenes, t) = k

\* After an auto-align of five scenes over 1 s, a click on the card of scene 3
\* has put the Player at the scene's stored start time, where it is active;
\* the stored time lies after 3 * 1 / 5.
C13_Witness ==
    /\ lastOp.op = "sceneClick"
    /\ lastOp.arg = 3
    /\ project.exists
    /\ Len(project.scenes) = 5
    /\ project.duration = TicksPerSecond
    /\ currentTime = FloatMul(3, FloatDiv(project.duration, 5))
    /\ currentTime > NominalTime(3, project.duration, 5)
    /\ PlayerActiveSceneIndex(project.scenes, currentTime) = 3

\* C14: an edit of the start time of the scene with a given id to t (before 0
\* and after the end included) stores exactly t in that scene and leaves the
\* order, every other scene, every other field of the edited scene and the
\* duration unchanged.
C14_EditSetsExactly ==
    [][\A id \in {lastOp'.arg}, t \in (-1)..(MaxDuration + 1) :
         (lastOp'.op = "timeChange" /\ HandleTimeChange(id, t)) =>
             /\ project'.exists
             /\ project'.duration = project.duration
             /\ Len(project'.scenes) = Len(project.scenes)
             /\ \A k \in 1..Len(project.scenes) :
                   project'.scenes[k] =
                       IF project.scenes[k].id = id
                       THEN [project.scenes[k] EXCEPT !.startTime = t]
                       ELSE project.scenes[k]]_vars

\* An edit has just put scene 0, which has its image, at a negative time,
\* while scene 1 sits after the end of the audio.
C14_Witness ==
    /\ lastOp.op = "timeChange"
    /\ lastOp.arg = 1
    /\ project.exists
    /\ Len(project.scenes) = 2
    /\ project.scenes[1].startTime = -1
    /\ project.scenes[1].status = "ready"
    /\ project.scenes[1].imageUrl
    /\ project.scenes[2].startTime = project.duration + 1

\* The moves of a scene's status: pending -> generating -> ready or error.
StatusMoves ==
    {<<"pending", "generating_image">>, <<"generating_image", "ready">>,
     <<"generating_image", "error">>}

\* C15: a new project's scenes are pending or generating, and while the
\* project lives the status of each scene stays or makes one of the moves
\* pending -> generating -> ready or error: never back to pending, never to
\* ready or error from pending, never away from ready or error.
C15_StatusOnlyMovesForward ==
    [][/\ lastOp'.op = "created" =>
             \A k \in 1..Len(project'.scenes) :
                 project'.scenes[k].status \in {"pending", "generating_image"}
       /\ (project.exists /\ project'.exists) =>
             \A k \in 1..Len(project.scenes) :
                 \/ project'.scenes[k].status = project.scenes[k].status
                 \/ <<project.scenes[k].status, project'.scenes[k].status>>
                        \in StatusMoves]_vars

\* C16: at most one generateSceneImage request is in flight, whatever the user
\* does (discarding a project and creating another included), and the request
\* for the next scene goes out only when the one before it has returned or
\* failed.
C16_OneRequestInOrder ==
    [][/\ Len(batches') <= 1
       /\ (Len(batches) = 1 /\ Len(batches') = 1 /\ batches' /= batches) =>
             /\ lastOp'.op \in {"genReady", "genError"}
             /\ lastOp'.arg = batches[1].i
             /\ batches'[1].i = batches[1].i + 1
             /\ batches'[1].n = batches[1].n]_vars

\* Every generateSceneImage request returns or fails in the end, and the loop
\* that awaits it then runs on: each running loop keeps taking its step for
\* as long as there is a tree for its updaters to act on.
RequestsReturn ==
    \A b \in 1..MaxBatches :
        WF_vars(~crashed /\ \E ok \in BOOLEAN : GenerateSettle(b, ok))

\* Creation, timeline edits and generation, with every request returning.
SpecGenerateFair == SpecEdit /\ RequestsReturn

\* Creation, discarding and generation, with every request returning.
SpecCreateFair == SpecCreate /\ RequestsReturn

AllScenesSettled ==
    \A k \in 1..Len(project.scenes) :
        project.scenes[k].status \in {"ready", "error"}

RequestedOnce == \A k \in 1..Len(requests) : requests[k] = 1

\* C18: with every request returning or failing, after a project is created
\* all its scenes reach ready or error, and by then generateSceneImage has
\* been called once for each of them; no scene is ever requested twice.
C18_EverySceneSettlesOnce ==
    /\ [](\A k \in 1..Len(requests) : requests[k] <= 1)
    /\ (lastOp.op = "created") ~> (AllScenesSettled /\ RequestedOnce)

\* C17: when the request for scene i fails, the scene whose generation was
\* under way gets status error and keeps its other fields; no other scene
\* changes, except that scene i + 1 is marked generating as the loop goes on
\* to it; the project stays, no project-level error is set, nothing crashes.
C17_FailureIsolated ==
    [][lastOp'.op = "genError" =>
         LET i == lastOp'.arg IN
         /\ ~crashed'
         /\ error' = error
         /\ project'.exists = project.exists
         /\ \E b \in 1..Len(batches) :
               /\ batches[b].i = i
               /\ batches' = IF i + 1 < batches[b].n
                             THEN [batches EXCEPT ![b].i = i + 1]
                             ELSE RemoveAt(batches, b)
         /\ project.exists =>
               /\ project'.duration = project.duration
               /\ Len(project'.scenes) = Len(project.scenes)
               /\ i < Len(project.scenes)
               /\ project.scenes[i + 1].status = "generating_image"
               /\ project'.scenes[i + 1] =
                      [project.scenes[i + 1] EXCEPT !.status = "error"]
               /\ i + 1 < Len(project.scenes) =>
                      /\ project.scenes[i + 2].status = "pending"
                      /\ project'.scenes[i + 2] =
                             [project.scenes[i + 2] EXCEPT !.status = "generating_image"]
               /\ \A k \in 1..Len(project.scenes) :
                      (k /= i + 1 /\ k /= i + 2) =>
                          project'.scenes[k] = project.scenes[k]]_vars

\* Comparisons of the numbers sceneProgress can be.
InUnitInterval(q) == q.kind = "finite" /\ 0 <= q.num /\ q.num <= q.den
AtMost(p, q) == p.kind = "finite" /\ q.kind = "finite" /\ p.num * q.den <= q.num * p.den
ExactlyOne(q) == q.kind = "finite" /\ q.num = q.den
FrameTimes == 0..(exportProject.duration - 1)
ExportedProgress(time) ==
    SceneProgress(exportProject.scenes, exportProject.duration, time)
ExportedIndex(time) == DrawFrameActiveSceneIndex(exportProject.scenes, time)

\* C19: during an export, at every frame time below the duration the scene
\* progress is a number between 0 and 1, it does not decrease from one time
\* to a later one with the same active scene, and the frame drawn carries it.
C19_ProgressBoundedMonotone ==
    exportPc = "recording" =>
       /\ \A t \in FrameTimes : InUnitInterval(ExportedProgress(t))
       /\ \A t1 \in FrameTimes, t2 \in FrameTimes :
             (t1 <= t2 /\ ExportedIndex(t1) = ExportedIndex(t2)) =>
                 AtMost(ExportedProgress(t1), ExportedProgress(t2))
       /\ exportFrame.drawn =>
             /\ exportFrame.progress = ExportedProgress(exportFrame.t)
             /\ InUnitInterval(exportFrame.progress)

\* A frame drawn part-way through a scene of a timeline that is out of order.
C19_Witness ==
    /\ exportPc = "recording"
    /\ exportFrame.drawn
    /\ Len(exportProject.scenes) = 2
    /\ exportProject.scenes[1].startTime > exportProject.scenes[2].startTime
    /\ 0 < exportFrame.progress.num
    /\ exportFrame.progress.num < exportFrame.progress.den

\* C20: whenever the window of the active scene has zero length, the scene
\* progress is exactly 1, at every frame time and in the frame drawn.
C20_ZeroWindowProgressOne ==
    exportPc = "recording" =>
       /\ \A t \in FrameTimes :
             SceneDuration(exportProject.scenes, exportProject.duration, t) = 0
                 => ExactlyOne(ExportedProgress(t))
       /\ (/\ exportFrame.drawn
           /\ SceneDuration(exportProject.scenes, exportProject.duration,
                            exportFrame.t) = 0)
             => ExactlyOne(exportFrame.progress)

\* Start times that do not decrease in array order.
StartTimesOrdered(scenes) ==
    \A k \in 1..(Len(scenes) - 1) : scenes[k].startTime <= scenes[k + 1].startTime

\* C21 as stated: for every scene list and every time before the start of
\* scene 0, the Player and the exporter resolve to index 0.
C21_BeforeFirstIsZero ==
    project.exists =>
        \A t \in Times :
            t < project.scenes[1].startTime =>
                /\ PlayerActiveSceneIndex(project.scenes, t) = 0
                /\ DrawFrameActiveSceneIndex(project.scenes, t) = 0

\* C21, amended: for every scene list whose start times do not decrease in
\* array order and every time before the start of scene 0, the Player and the
\* exporter resolve to index 0.
C21_BeforeFirstIsZeroOrdered ==
    (project.exists /\ StartTimesOrdered(project.scenes)) =>
        \A t \in Times :
            t < project.scenes[1].startTime =>
                /\ PlayerActiveSceneIndex(project.scenes, t) = 0
                /\ DrawFrameActiveSceneIndex(project.scenes, t) = 0

\* The Player sits before the start of scene 0 of an ordered two-scene list.
C21_Witness ==
    /\ project.exists
    /\ Len(project.scenes) = 2
    /\ StartTimesOrdered(project.scenes)
    /\ currentTime < project.scenes[1].startTime
    /\ PlayerActiveSceneIndex(project.scenes, currentTime) = 0

\* C22: with the clock advancing and frames being requested, a recording
\* export ends without a failure; the frame that finds its time at or past
\* the duration ends it and draws nothing, every earlier frame is drawn and
\* leaves the export running, so no drawn frame has a time at or past the
\* duration; this does not depend on which images exist or loaded.
C22_ExportFinishes ==
    /\ []((exportPc = "recording" /\ exportFrame.drawn)
              => exportFrame.t < exportProject.duration)
    /\ [][lastOp'.op = "exportFrame" =>
             IF exportTime >= exportProject.duration
             THEN /\ ~isExporting'
                  /\ exportPc' = "idle"
                  /\ exportFrame' = exportFrame
             ELSE /\ isExporting'
                  /\ exportPc' = "recording"
                  /\ exportFrame'.drawn
                  /\ exportFrame'.t = exportTime]_vars
    /\ (exportPc = "recording") ~> (~isExporting /\ lastOp.op = "exportFrame")

\* An export has ended after drawing its last frame without an image, for a
\* scene whose image failed to load.
C22_Witness ==
    /\ ~isExporting
    /\ lastOp.op = "exportFrame"
    /\ exportFrame.drawn
    /\ ~exportFrame.image
    /\ project.scenes[exportFrame.index + 1].status = "ready"
    /\ \E k \in 1..Len(project.scenes) : project.scenes[k].status /= "ready"

\* C23: while an export runs the progress shown is between 0 and 100; a
\* frame never reports less than what was shown before it; and the frame
\* that completes the export reports 100.
C23_ProgressReports ==
    /\ [](isExporting =>
             /\ exportProgress.den > 0
             /\ 0 <= exportProgress.num
             /\ exportProgress.num <= 100 * exportProgress.den)
    /\ [][lastOp'.op = "exportFrame" =>
             /\ exportProgress.num * exportProgress'.den
                    <= exportProgress'.num * exportProgress.den
             /\ exportProgress'.num <= 100 * exportProgress'.den
             /\ ~isExporting' => exportProgress'.num = 100 * exportProgress'.den]_vars

\* A frame in the middle of an export has reported a value strictly between
\* 0 and 100.
C23_Witness ==
    /\ isExporting
    /\ lastOp.op = "exportFrame"
    /\ 0 < exportProgress.num
    /\ exportProgress.num < 100 * exportProgress.den

\* C24: a failure of an export, in its setup or in a frame after recording
\* has started, ends the export in the step that raises it: the export is no
\* longer in progress and the exporter is idle, with no recording left to
\* produce a file.
C24_FailureEndsExport ==
    [][lastOp'.op \in {"exportFailed", "exportFault"} =>
          /\ ~isExporting'
          /\ exportPc' = "idle"]_vars

C26_ShapeIsFixed ==
    /\ [](project.exists =>
             \A j \in 1..Len(project.scenes), k \in 1..Len(project.scenes) :
                 project.scenes[j].id = project.scenes[k].id => j = k)
    /\ [][(project.exists /\ project'.exists) =>
             /\ project'.duration = project.duration
             /\ Len(project'.scenes) = Len(project.scenes)
             /\ \A k \in 1..Len(project.scenes) :
                    project'.scenes[k].id = project.scenes[k].id]_vars

\* Edits, an arrived image and an export have all acted on one project.
C26_Witness ==
    /\ project.exists
    /\ Len(project.scenes) = 2
    /\ project.scenes[1].startTime > project.scenes[2].startTime
    /\ project.scenes[1].status = "ready"
    /\ isExporting
    /\ exportFrame.drawn

\* What the scenes hold once every queued updater has run.
LatestScenes == ApplyUpdates(project, pendingUpdates).scenes

\* C27: a start-time edit, auto-align or sync leaves every scene with the
\* status and image that generation has written last, queued writes
\* included, and changes the start times it is to change; a status update
\* leaves every start time as the last edit set it.
C27_NoLostWrite ==
    [][/\ (lastOp'.op \in {"timeChange", "autoAlign", "recordSync"}) =>
             \A k \in 1..Len(project.scenes) :
                 /\ project'.scenes[k].status = LatestScenes[k].status
                 /\ project'.scenes[k].imageUrl = LatestScenes[k].imageUrl
                 /\ lastOp'.op = "autoAlign" =>
                        project'.scenes[k].startTime =
                            AutoAlignScenes(project.scenes, project.duration)[k].startTime
                 /\ lastOp'.op = "recordSync" =>
                        project'.scenes[k].startTime =
                            RecordSyncScenes(project.scenes, currentTime)[k].startTime
                 /\ (lastOp'.op = "timeChange" /\ project.scenes[k].id /= lastOp'.arg) =>
                        project'.scenes[k].startTime = project.scenes[k].startTime
       /\ (lastOp'.op \in {"genReady", "genError", "render"}) =>
             \A k \in 1..Len(project.scenes) :
                 project'.scenes[k].startTime = project.scenes[k].startTime]_vars

\* C28: whenever there is a project, currentTime is at least 0 and at most
\* the duration of the project.
C28_CurrentTimeInRange ==
    project.exists => (0 <= currentTime /\ currentTime <= project.duration)

\* C29: at the Player's position, the scene after the active one, which
\* enables Sync Next, and the first scene in array order that starts later
\* than the position, which Sync Next moves, are the same scene, or there is
\* neither.
C29_NextSceneAgrees ==
    project.exists =>
        LET activeSceneIndex == PlayerActiveSceneIndex(project.scenes, currentTime)
            nextSceneIndex == NextSceneIndex(project.scenes, currentTime)
        IN IF activeSceneIndex < Len(project.scenes) - 1
           THEN nextSceneIndex = activeSceneIndex + 1
           ELSE nextSceneIndex = -1

ExportedWindow(time) ==
    SceneDuration(exportProject.scenes, exportProject.duration, time)
ExportedStart(time) == exportProject.scenes[ExportedIndex(time) + 1].startTime

\* C30: during an export, at every frame time below the duration, an active
\* scene that has started has a window of positive length; a window of zero
\* or negative length belongs to scene 0 active without having started.
C30_QualifyingWindowPositive ==
    exportPc = "recording" =>
        \A t \in FrameTimes :
            /\ ExportedStart(t) <= t => ExportedWindow(t) > 0
            /\ ExportedWindow(t) <= 0 => (ExportedIndex(t) = 0 /\ ExportedStart(t) > t)

\* A frame was drawn for scene 0 before its start, its window being empty or
\* negative, in an export that also has a frame time at which a scene has
\* started.
C30_Witness ==
    /\ exportPc = "recording"
    /\ exportFrame.drawn
    /\ exportFrame.index = 0
    /\ ExportedStart(exportFrame.t) > exportFrame.t
    /\ ExportedWindow(exportFrame.t) <= 0
    /\ \E t \in FrameTimes : ExportedStart(t) <= t

\* C31: the guard of recordSync never declines: for every scene list the
\* timeline can hold and every position t >= 0 with a target (some scene has
\* startTime > t), recordSync stores a list in which the target, the first
\* such scene in array order, starts at t, which is a change of its startTime;
\* and a Sync Next click at such a position changes the project accordingly.
C31_SyncNeverDeclined ==
    /\ [](project.exists =>
            \A t \in Times :
                LET k == FirstFuture(project.scenes, t) IN
                k > 0 =>
                    /\ SyncPasses(project.scenes, t, k)
                    /\ RecordSyncScenes(project.scenes, t)[k].startTime = t
                    /\ RecordSyncScenes(project.scenes, t)[k].startTime
                           /= project.scenes[k].startTime)
    /\ [][HandleRecordSync =>
            LET k == FirstFuture(project.scenes, currentTime) IN
            (k > 0 /\ currentTime >= 0) =>
                /\ project'.scenes[k].startTime = currentTime
                /\ project'.scenes[k].startTime /= project.scenes[k].startTime]_vars

\* A sync has just moved scene 1 to a position after 0; scene 0, the scene
\* the guard looks at, starts after 0 and not after the position.
C31_Witness ==
    /\ lastOp.op = "recordSync"
    /\ lastOp.arg = 1
    /\ Len(project.scenes) = 2
    /\ currentTime > 0
    /\ project.scenes[1].startTime > 0
    /\ project.scenes[1].startTime <= currentTime
    /\ project.scenes[2].startTime = currentTime

\* C32: a recordSync at position t on a list whose start times are
\* non-decreasing in array order leaves them non-decreasing, and the scene it
\* moved is the active scene at t; for the Sync Next click at the current
\* position and for every position the handler could be given.
C32_SyncKeepsOrder ==
    /\ [](project.exists /\ StartTimesOrdered(project.scenes) =>
            \A t \in Times :
                LET k == FirstFuture(project.scenes, t)
                    synced == RecordSyncScenes(project.scenes, t)
                IN /\ StartTimesOrdered(synced)
                   /\ k > 0 => /\ synced /= project.scenes
                               /\ PlayerActiveSceneIndex(synced, t) = k - 1)
    /\ [][HandleRecordSync /\ StartTimesOrdered(project.scenes) =>
            /\ StartTimesOrdered(project'.scenes)
            /\ project' /= project =>
                 /\ project'.scenes[lastOp'.arg + 1].startTime = currentTime'
                 /\ PlayerActiveSceneIndex(project'.scenes, currentTime')
                        = lastOp'.arg]_vars

\* A sync on an ordered list has just moved scene 1 to a position after 0,
\* the list is still ordered and scene 1 is the active scene.
C32_Witness ==
    /\ lastOp.op = "recordSync"
    /\ lastOp.arg = 1
    /\ Len(project.scenes) = 2
    /\ StartTimesOrdered(project.scenes)
    /\ currentTime > 0
    /\ project.scenes[2].startTime = currentTime
    /\ PlayerActiveSceneIndex(project.scenes, currentTime) = 1

\* C33: in every reachable state a scene of the project has an imageUrl if
\* and only if its status is ready.
C33_ImageIffReady ==
    project.exists =>
        \A k \in 1..Len(project.scenes) :
            project.scenes[k].imageUrl <=> project.scenes[k].status = "ready"

\* C34: a generation batch writes only to the project it was started for:
\* when generateVisuals of a discarded project resumes after its request
\* returned or failed, no scene of the project created since is changed.
C34_StaleBatchWritesNothing ==
    [][\A b \in 1..Len(batches), ok \in BOOLEAN :
           (GenerateSettle(b, ok) /\ ~batches[b].own /\ project.exists)
               => project'.scenes = project.scenes]_vars

\* The frame-update loops that are scheduled and call onTimeUpdate: the loop
\* of the mounted Player and the loops left by unmounted Players.
ActiveLoops == (IF rafActive THEN 1 ELSE 0) + Cardinality(zombies)

\* C35: at any time at most one audio source is playing and at most one
\* frame-update loop is active and writing currentTime, also after a project
\* was discarded while playing and another one was created.  A source that
\* plays is the one the mounted Player holds in sourceRef, the only one a
\* pause can stop.
C35_OneSourceOneLoop ==
    /\ sourcePlaying => (sourceRef /\ project.exists)
    /\ ActiveLoops <= 1

\* The 0-based indices of the scene cards the timeline list marks active.
ActiveCards(scenes, time) ==
    {idx \in 0..(Len(scenes) - 1) : SceneCardIsActive(scenes, time, idx)}

\* C36: for every scene list and every currentTime exactly one scene card of
\* the timeline list is marked active, and it is the card of the scene whose
\* index the Player's active-scene computation returns.
C36_OneActiveCard ==
    project.exists =>
        \A t \in Times \cup {currentTime} :
            ActiveCards(project.scenes, t)
                = {PlayerActiveSceneIndex(project.scenes, t)}

\* C37: the transport moves to COMPLETED only when the audio source of the
\* play session has played to the end of the buffer; a pause, a scene-card
\* click or the start of an export before the end never leads to COMPLETED.
C37_CompleteOnlyAtEnd ==
    [][(playbackState' = COMPLETED /\ playbackState /= COMPLETED)
          => /\ endedNaturally'
             /\ lastOp'.op = "ended"]_vars

====
